---- MODULE Spec2Model ----
(***************************************************************************)
(* Model of src/scraper.js: the exam-table scraper with its redis cache.   *)
(*                                                                         *)
(* Node runs the module one turn at a time.  In a turn the replies that    *)
(* arrived from the store or from the upstream are handed over, each       *)
(* settling the promise that waits for it; then the microtask queue is     *)
(* drained, first in first out, and no reply is handed over before it is   *)
(* empty.  A job of that queue is one continuation: the code of one        *)
(* function from the await it was suspended at to its next await or its    *)
(* return, or one reaction of Promise.all.  Every action below is the      *)
(* handing over of one reply or one job.                                   *)
(*                                                                         *)
(* The store applies a request when its reply is handed over.  Replies may *)
(* come in any order, which includes the order in which a single redis     *)
(* connection answers.                                                     *)
(*                                                                         *)
(* Texts that the code trims or converts are sequences of UTF-16 code      *)
(* units (numbers); texts the code only copies are plain strings.          *)
(***************************************************************************)
EXTENDS Integers, Sequences, FiniteSets, TLC

VARIABLES
    store,      \* the redis keyspace: key -> Null or [text, ttl, value]
    tasks,      \* the promises of getTests / clearCache calls in flight or settled
    stats,      \* the promise of the getStats call
    queue,      \* the microtask queue: the jobs to run, first in first out
    draining    \* a job of this turn has run: no reply is handed over now

vars == <<store, tasks, stats, queue, draining>>

-----------------------------------------------------------------------------
(* Bounds and configuration *)

\* Number of top-level getTests / clearCache calls a behaviour may make.
NumCalls == 2

\* REDIS_EXPIRE, the number of seconds an entry lives (read from the environment).
REDIS_EXPIRE == 2

\* The largest number of replies handed over in one turn.
MaxChunk == 2

\* REDIS_PREFIX with its default.
redisPrefix == "proftafla"

-----------------------------------------------------------------------------
(* Values *)

\* JavaScript null / redis nil.
Null == [null |-> TRUE]

\* JavaScript numbers as the code meets them: a natural number, NaN, and (after
\* the JSON round trip) null in the place of a number.
Num(n) == [k |-> "num", n |-> n]
NaN == [k |-> "nan", n |-> 0]
NullNum == [k |-> "null", n |-> 0]

\* The division registry.
schools == <<
    [name |-> "Félagsvísindasvið", id |-> 1, slug |-> "felagsvisindasvid"],
    [name |-> "Heilbrigðisvísindasvið", id |-> 2, slug |-> "heilbrigdisvisindasvid"],
    [name |-> "Hugvísindasvið", id |-> 3, slug |-> "hugvisindasvid"],
    [name |-> "Menntavísindasvið", id |-> 4, slug |-> "menntavisindasvid"],
    [name |-> "Verkfræði- og náttúruvísindasvið", id |-> 5,
     slug |-> "verkfraedi-og-natturuvisindasvid"] >>

SchoolIdx == 1..Len(schools)

\* schools.find(i => i.slug === slug): the first match, or Null (undefined).
Find(slug) ==
    IF \E i \in SchoolIdx : schools[i].slug = slug
    THEN schools[CHOOSE i \in SchoolIdx :
                    /\ schools[i].slug = slug
                    /\ \A j \in 1..(i - 1) : schools[j].slug # slug]
    ELSE Null

\* (Variant: one key for all divisions.)
Key_OfFirstSchool(slug) == <<redisPrefix, schools[1].slug>>

\* `${redisPrefix}:${slug}`
Key(slug) == <<redisPrefix, slug>>

\* A key of another application in the same redis database.
ForeignKey == <<"session", "abc">>

\* The glob `${redisPrefix}:*`.
MatchesPrefix(key) == key[1] = redisPrefix

-----------------------------------------------------------------------------
(* Text: String.prototype.trim and Number()                                 *)
(* A text is a sequence of UTF-16 code units, each a number in 0..65535:    *)
(* "A 1" is <<65, 32, 49>>.                                                 *)

\* The code units .trim() strips and Number() skips, the WhiteSpace and
\* LineTerminator characters of ECMAScript: U+0009 tab, U+000A line feed,
\* U+000B line tabulation, U+000C form feed, U+000D carriage return, U+0020
\* space, U+00A0 no-break space, U+1680 ogham space mark, U+2000..U+200A the
\* spaces of fixed width, U+2028 line separator, U+2029 paragraph separator,
\* U+202F narrow no-break space, U+205F medium mathematical space, U+3000
\* ideographic space and U+FEFF zero width no-break space.  (U+0085 next line
\* and U+200B zero width space are not among them.)
IsSpace(ch) ==
    \/ ch \in {9, 10, 11, 12, 13, 32, 160, 5760}
    \/ ch \in 8192..8202
    \/ ch \in {8232, 8233, 8239, 8287, 12288, 65279}

\* "0" .. "9"
IsDigit(ch) == ch \in 48..57

DigitVal(ch) == ch - 48

RECURSIVE TrimLeft(_)
TrimLeft(s) ==
    IF s # <<>> /\ IsSpace(Head(s)) THEN TrimLeft(Tail(s)) ELSE s

RECURSIVE TrimRight(_)
TrimRight(s) ==
    IF s # <<>> /\ IsSpace(s[Len(s)])
    THEN TrimRight(SubSeq(s, 1, Len(s) - 1))
    ELSE s

\* .trim()
Trim(s) == TrimRight(TrimLeft(s))

RECURSIVE DecimalValue(_)
DecimalValue(s) ==
    IF s = <<>> THEN 0
    ELSE 10 * DecimalValue(SubSeq(s, 1, Len(s) - 1)) + DigitVal(s[Len(s)])

\* Number(text) for texts made of decimal digits, white space and characters
\* that occur in no numeric literal (such as "?"): white space around the
\* numeral is ignored, the empty text is 0, a run of digits is its decimal
\* value, any other text is NaN.
Number(s) ==
    LET t == Trim(s) IN
    IF t = <<>> THEN Num(0)
    ELSE IF \A i \in 1..Len(t) : IsDigit(t[i]) THEN Num(DecimalValue(t))
    ELSE NaN

-----------------------------------------------------------------------------
(* The HTML fragment: the sequence of sibling elements of the fragment.     *)
(* An element is [tag, text, rows]; rows are the tr of a table's tbody,     *)
(* each a sequence of td texts.                                             *)

H3(text) == [tag |-> "h3", text |-> text, rows |-> <<>>]
Table(rows) == [tag |-> "table", text |-> <<>>, rows |-> rows]
Para == [tag |-> "p", text |-> <<>>, rows |-> <<>>]

\* $(row).find('td:nth-child(i)').text().trim(): the empty text when the row
\* has no such cell.
Cell(row, i) == IF i <= Len(row) THEN Trim(row[i]) ELSE <<>>

\* Lines 119-131: one test of a row.
TestOf(row) ==
    [course |-> Cell(row, 1), name |-> Cell(row, 2), type |-> Cell(row, 3),
     students |-> Number(Cell(row, 4)), date |-> Cell(row, 5)]

\* (Variant: nextAll, the first table anywhere after the heading.)
NextTableRows_Following(doc, i) ==
    LET after == {j \in (i + 1)..Len(doc) : doc[j].tag = "table"}
    IN IF after = {} THEN <<>>
       ELSE doc[CHOOSE j \in after : \A l \in after : j <= l].rows

\* $(el).next('table').find('tbody tr'): the rows of the element right after
\* element i when that element is a table, no rows otherwise.
NextTableRows(doc, i) ==
    IF i < Len(doc) /\ doc[i + 1].tag = "table" THEN doc[i + 1].rows ELSE <<>>

\* Lines 113-138: one department per h3, in document order.
RECURSIVE DepartmentsFrom(_, _)
DepartmentsFrom(doc, i) ==
    IF i > Len(doc) THEN <<>>
    ELSE IF doc[i].tag = "h3"
    THEN <<[heading |-> Trim(doc[i].text),
            tests |-> [j \in 1..Len(NextTableRows(doc, i)) |->
                          TestOf(NextTableRows(doc, i)[j])]]>>
         \o DepartmentsFrom(doc, i + 1)
    ELSE DepartmentsFrom(doc, i + 1)

\* Lines 106-140: the result of fetchAndParse for a decoded body.
ParseResult(doc, heading) ==
    [heading |-> heading, departments |-> DepartmentsFrom(doc, 1)]

-----------------------------------------------------------------------------
(* JSON.stringify and JSON.parse *)

\* JSON.stringify of a number: NaN has no JSON form and is written as null.
JsonNumber(v) == IF v.k = "num" THEN v ELSE NullNum

JsonTest(t) == [t EXCEPT !.students = JsonNumber(t.students)]

JsonDepartment(d) ==
    [d EXCEPT !.tests = [j \in 1..Len(d.tests) |-> JsonTest(d.tests[j])]]

\* What JSON.parse gives back for JSON.stringify(value): the value with every
\* NaN replaced by null.
JsonValue(value) ==
    [value EXCEPT !.departments =
        [i \in 1..Len(value.departments) |-> JsonDepartment(value.departments[i])]]

\* A text in the store: JSON text (held as the value it decodes to) or a text
\* that is no JSON.
JsonText(v) == [kind |-> "json", val |-> v]
BadText == [kind |-> "bad", val |-> Null]

\* JSON.stringify(value)
Stringify(value) == JsonText(JsonValue(value))

\* JSON.parse(raw): [ok, val]; redis nil is coerced to the text "null".
Parse(raw) ==
    IF raw = Null THEN [ok |-> TRUE, val |-> Null]
    ELSE IF raw.kind = "json" THEN [ok |-> TRUE, val |-> raw.val]
    ELSE [ok |-> FALSE, val |-> Null]

\* if (cached): null is falsy, an object is truthy.
Truthy(v) == v # Null

-----------------------------------------------------------------------------
(* The environment: what the upstream serves and what callers ask for *)

\* A table row with the cells "C1", "N", "W", the students text and "D".
RowOf(students) == <<<<67, 49>>, <<78>>, <<87>>, students, <<68>>>>

\* One department with one test of 3 students; texts carry white space: the
\* heading is "\rA " and the students cell " 3".
DocA == <<H3(<<13, 65, 32>>), Table(<<RowOf(<<160, 51>>)>>)>>

\* Two departments, "B" and "E"; the first has the students cells "?", which
\* is no number, and "10"; the second heading is followed by a paragraph, not
\* by a table.
DocB == <<H3(<<66>>), Table(<<RowOf(<<63>>), RowOf(<<49, 48>>)>>),
          H3(<<69>>), Para>>

\* A fragment without headings.
DocNone == <<Para>>

\* The fragments the upstream may serve for a division.
Upstream(id) ==
    IF id = 1 THEN {DocA, DocB}
    ELSE IF id = 2 THEN {DocB}
    ELSE {DocNone}

\* The response of fetch(url): the request fails, or a status and a body.
NetFail == [net |-> "fail", status |-> 0, body |-> BadText]
Response(status, body) == [net |-> "ok", status |-> status, body |-> body]

Responses(id) ==
    {NetFail, Response(500, BadText), Response(200, BadText)}
    \cup {Response(200, JsonText([html |-> doc])) : doc \in Upstream(id)}

\* Two departments, "D" and "F", each heading followed by its table; the
\* students cells are "10" and "1 " (a digit and an em space).
DocC == <<H3(<<68>>), Table(<<RowOf(<<49, 48>>)>>),
          H3(<<70>>), Table(<<RowOf(<<49, 8195>>)>>)>>

\* One department, "G", whose only test has 1000 students.
DocBig == <<H3(<<71>>), Table(<<RowOf(<<49, 48, 48, 48>>)>>)>>

\* A heading, "H", whose next sibling is a paragraph; the table, with the
\* students cell "7", comes after it.
DocGap == <<H3(<<72>>), Para, Table(<<RowOf(<<55>>)>>)>>

\* The fragments of an upstream whose content varies from day to day.
Content(id) ==
    IF id = 1 THEN {DocA, DocB, DocBig, DocNone}
    ELSE IF id = 2 THEN {DocC, DocGap}
    ELSE {DocNone}

\* The responses of an upstream that answers every request with a page.
Answers(id) == {Response(200, JsonText([html |-> doc])) : doc \in Content(id)}

\* The slugs callers pass to getTests: two registered ones and an unknown one.
InputSlugs == {schools[1].slug, schools[2].slug, "nosuchslug"}

\* Texts another client of the shared store may leave under a key: a text that
\* is no JSON.
ForeignTexts == {BadText}

-----------------------------------------------------------------------------
(* State *)

Calls == 1..NumCalls

\* The getTests calls made by getStats, one per school.
SubOf(i) == NumCalls + i
Subs == {SubOf(i) : i \in SchoolIdx}

TaskIds == Calls \cup Subs

\* An entry that never expires.
NoExpiry == -1

Keys == {Key(schools[i].slug) : i \in SchoolIdx} \cup {ForeignKey}

\* A call.  pc is the await the call is suspended at and whether the reply
\* is there:
\*   getTests    get, gotReply (line 65), read (157), fetch, fetched (98),
\*               json, body (104), parsed or thrown (163), set, setReply
\*               (83), cached (165), done, raised;
\*   clearCache  keys, keysReply (line 177), dels, joined (178), done.
IdleTask ==
    [op |-> "none", pc |-> "idle", slug |-> "",
     reply |-> Null,    \* the reply to GET (line 65)
     cached |-> Null,   \* the value getFromCache returned (line 157)
     threw |-> FALSE,   \* getFromCache or cache threw
     resp |-> Null,     \* the response of fetch (line 98)
     data |-> Null,     \* the result of fetchAndParse (line 163)
     ack |-> "",        \* the reply to SET or KEYS: "ok", "error", "" for none
     result |-> Null,   \* the value the promise resolved with
     err |-> "",        \* the error fetchAndParse and the promise rejected with
     fetches |-> 0,     \* upstream requests issued by this call
     readWarn |-> FALSE,  \* getFromCache logged a warning (line 68)
     writeWarn |-> FALSE, \* cache logged a warning (line 85)
     origin |-> Null,   \* the value cache() was given for the entry GET found
     listed |-> {},     \* keys returned by asyncKeys (line 177)
     pending |-> {},    \* deletes in flight
     unsettled |-> {},  \* deletes Promise.all has not seen settle (line 178)
     failed |-> {},     \* deletes that failed
     since |-> {},      \* keys anyone wrote between the listing and the return
     listFail |-> FALSE,\* asyncKeys failed
     joinOk |-> FALSE,  \* Promise.all of the deletes resolved
     cleared |-> FALSE] \* the boolean clearCache resolved with

\* The getStats call.  pc: idle, waiting (line 198), joined, done, raised.
IdleStats ==
    [pc |-> "idle", result |-> Null, err |-> "",
     unsettled |-> {},  \* calls Promise.all has not seen settle (line 198)
     values |-> <<>>]   \* the values Promise.all resolved with

Settled(t) == t.pc \in {"done", "raised"}

Init ==
    /\ store = [k \in Keys |->
                  IF k = ForeignKey
                  THEN [text |-> BadText, ttl |-> NoExpiry, value |-> Null]
                  ELSE Null]
    /\ tasks = [c \in TaskIds |-> IdleTask]
    /\ stats = IdleStats
    /\ queue = <<>>
    /\ draining = FALSE

-----------------------------------------------------------------------------
(* Turns and the microtask queue *)

\* The job that resumes call c at its await.
Resume(c) == [kind |-> "resume", id |-> c, key |-> <<>>, ok |-> TRUE]

\* The job by which Promise.all (line 178) takes note that the DEL of key
\* settled.
DelSettled(c, key, ok) == [kind |-> "delSettled", id |-> c, key |-> key, ok |-> ok]

\* The job by which Promise.all (line 198) takes note that getTests call s
\* settled.
CallSettled(s) == [kind |-> "callSettled", id |-> s, key |-> <<>>, ok |-> TRUE]

\* The job that resumes getStats at line 198.
ResumeStats == [kind |-> "resumeStats", id |-> 0, key |-> <<>>, ok |-> TRUE]

\* A call that waits for a job: the awaited promise is settled.
Resumable(t) ==
    t.pc \in {"gotReply", "read", "fetched", "body", "parsed", "thrown",
              "setReply", "cached", "keysReply", "joined"}

\* The jobs that settling task c as t puts in the queue: the continuation of
\* the function awaiting it, or the reaction of Promise.all when a call of
\* getStats returns.
JobsFor(c, t) ==
    IF Resumable(t) THEN <<Resume(c)>>
    ELSE IF Settled(t) /\ c \in Subs THEN <<CallSettled(c)>>
    ELSE <<>>

\* Nothing of this turn is left to do: the next turn can start.
TurnOver == queue = <<>>

\* A reply is handed over: no job of this turn has run, and the promise it
\* settles queues its job.
HandOver(jobs) ==
    /\ ~draining
    /\ queue' = queue \o jobs
    /\ draining' = FALSE

\* The job at the head of the queue runs and queues the jobs its run gives
\* rise to.
Run(job, jobs) ==
    /\ queue # <<>>
    /\ Head(queue) = job
    /\ queue' = Tail(queue) \o jobs
    /\ draining' = (queue' # <<>>)

-----------------------------------------------------------------------------
(* Cache adapter *)

\* The reply redis gives to GET key: a store error, or the text under the key
\* (nil when there is none).
GetReplyOf(key, ok) ==
    [ok |-> ok, raw |-> IF ok /\ store[key] # Null THEN store[key].text ELSE Null]

\* (Variant: the catch block rethrows.)
getFromCache_Rethrow(reply) ==
    IF ~reply.ok \/ ~Parse(reply.raw).ok
    THEN [value |-> Null, warned |-> TRUE, threw |-> TRUE]
    ELSE [value |-> Parse(reply.raw).val, warned |-> FALSE, threw |-> FALSE]

\* getFromCache, lines 66-70, after the reply to GET: the value returned,
\* whether the warning was logged and whether the call threw.
getFromCache(reply) ==
    IF ~reply.ok \/ ~Parse(reply.raw).ok
    THEN [value |-> Null, warned |-> TRUE, threw |-> FALSE]
    ELSE [value |-> Parse(reply.raw).val, warned |-> FALSE, threw |-> FALSE]

\* The entry SET key text EX ttl leaves in the store; next to the text the
\* entry remembers the value that was encoded.
EntryOf(value, ttl) ==
    [text |-> Stringify(value), ttl |-> ttl, value |-> value]

\* (Variant: SET ... NX, an existing entry is kept.)
cache_KeepExisting(key, value, ok) ==
    IF ok
    THEN [store |-> IF store[key] = Null
                    THEN [store EXCEPT ![key] = EntryOf(value, REDIS_EXPIRE)]
                    ELSE store,
          warned |-> FALSE, threw |-> FALSE]
    ELSE [store |-> store, warned |-> TRUE, threw |-> FALSE]

\* (Variant: SET without EX, the entry never expires.)
cache_NoExpiry(key, value, ok) ==
    IF ok
    THEN [store |-> [store EXCEPT ![key] = EntryOf(value, -1)],
          warned |-> FALSE, threw |-> FALSE]
    ELSE [store |-> store, warned |-> TRUE, threw |-> FALSE]

\* cache, lines 79-87: the store after the SET it sends (line 83), and, after
\* the reply, whether the warning was logged and whether the call threw.
cache(key, value, ok) ==
    IF ok
    THEN [store |-> [store EXCEPT ![key] = EntryOf(value, REDIS_EXPIRE)],
          warned |-> FALSE, threw |-> FALSE]
    ELSE [store |-> store, warned |-> TRUE, threw |-> FALSE]

-----------------------------------------------------------------------------
(* Aggregation, lines 193-227 *)

\* ToNumber of a value that is not NaN: null converts to 0.
ToNum(v) == IF v.k = "num" THEN v.n ELSE 0

\* a < b
Lt(a, b) == a.k # "nan" /\ b.k # "nan" /\ ToNum(a) < ToNum(b)

\* a + b
Add(a, b) ==
    IF a.k = "nan" \/ b.k = "nan" THEN NaN ELSE Num(ToNum(a) + ToNum(b))

RECURSIVE Flatten(_)
Flatten(seqs) ==
    IF seqs = <<>> THEN <<>> ELSE Head(seqs) \o Flatten(Tail(seqs))

\* The tests of all departments of all schools, in iteration order.
AllTests(all) ==
    Flatten([i \in 1..Len(all) |->
               Flatten([j \in 1..Len(all[i].departments) |->
                          all[i].departments[j].tests])])

\* (Variant: the sum is assigned, not added to.)
FoldTest_Overwrite(acc, test) ==
    [min |-> IF Lt(test.students, acc.min) THEN test.students ELSE acc.min,
     max |-> IF Lt(acc.max, test.students) THEN test.students ELSE acc.max,
     numTests |-> acc.numTests + 1,
     numStudents |-> test.students]

\* Lines 203-214: the loop body.
FoldTest(acc, test) ==
    [min |-> IF Lt(test.students, acc.min) THEN test.students ELSE acc.min,
     max |-> IF Lt(acc.max, test.students) THEN test.students ELSE acc.max,
     numTests |-> acc.numTests + 1,
     numStudents |-> Add(acc.numStudents, test.students)]

RECURSIVE FoldTests(_, _)
FoldTests(acc, tests) ==
    IF tests = <<>> THEN acc
    ELSE FoldTests(FoldTest(acc, Head(tests)), Tail(tests))

\* (Variant: an average over no tests is 0.)
ToFixed2_ZeroOverZero(numStudents, numTests) ==
    IF numStudents.k = "nan" THEN [text |-> "NaN", hundredths |-> 0]
    ELSE IF numTests = 0 THEN [text |-> "fixed", hundredths |-> 0]
    ELSE [text |-> "fixed",
          hundredths |-> (200 * numStudents.n + numTests) \div (2 * numTests)]

\* (numStudents / numTests).toFixed(2): "NaN", or the quotient rounded to the
\* nearest hundredth, held as its number of hundredths.  (With fewer than 8
\* tests no quotient lies exactly between two hundredths.)
ToFixed2(numStudents, numTests) ==
    IF numStudents.k = "nan" \/ numTests = 0 THEN [text |-> "NaN", hundredths |-> 0]
    ELSE [text |-> "fixed",
          hundredths |-> (200 * numStudents.n + numTests) \div (2 * numTests)]

\* Lines 193-227 after the await.
StatsOf(all) ==
    LET acc == FoldTests([min |-> Num(999), max |-> Num(0), numTests |-> 0,
                          numStudents |-> Num(0)], AllTests(all))
    IN [min |-> acc.min, max |-> acc.max, numTests |-> acc.numTests,
        numStudents |-> acc.numStudents,
        averageStudents |-> ToFixed2(acc.numStudents, acc.numTests)]

\* (Variant: Promise.allSettled, the calls that rejected are left out.)
Join_Partial(st, s, t) ==
    IF st.pc # "waiting" THEN [st EXCEPT !.unsettled = @ \ {s}]
    ELSE IF st.unsettled = {s}
    THEN [st EXCEPT !.pc = "joined", !.unsettled = {},
                    !.values = SelectSeq([i \in SchoolIdx |-> t[SubOf(i)].result],
                                         LAMBDA r : r # Null)]
    ELSE [st EXCEPT !.unsettled = @ \ {s}]

\* Promise.all over the getTests calls of getStats (line 198) when it takes
\* note that call s settled, the calls being t: it rejects with the error of
\* the first call it sees rejected and resolves, with the results in the
\* order of schools, when it has seen all calls resolved.
Join(st, s, t) ==
    IF st.pc # "waiting" THEN [st EXCEPT !.unsettled = @ \ {s}]
    ELSE IF t[s].pc = "raised"
    THEN [st EXCEPT !.pc = "joined", !.err = t[s].err, !.unsettled = @ \ {s}]
    ELSE IF st.unsettled = {s}
    THEN [st EXCEPT !.pc = "joined", !.unsettled = {},
                    !.values = [i \in SchoolIdx |-> t[SubOf(i)].result]]
    ELSE [st EXCEPT !.unsettled = @ \ {s}]

\* Lines 198-227 when getStats resumes: the rejection of Promise.all leaves
\* getStats as it is; else the statistics of the results are returned.
AfterJoin(st) ==
    IF st.err # "" THEN [st EXCEPT !.pc = "raised"]
    ELSE [st EXCEPT !.pc = "done", !.result = StatsOf(st.values)]

-----------------------------------------------------------------------------
(* getTests, lines 149-168, continuation by continuation *)

Raise(task, err) == [task EXCEPT !.pc = "raised", !.err = err]

Resolve(task, value) == [task EXCEPT !.pc = "done", !.result = value]

\* (Variant: no check of the registry lookup, item.id of undefined throws.)
StartGetTests_NoCheck(slug) ==
    IF Find(slug) = Null
    THEN Raise([IdleTask EXCEPT !.op = "getTests", !.slug = slug], "TypeError")
    ELSE [IdleTask EXCEPT !.op = "getTests", !.slug = slug, !.pc = "get"]

\* Lines 150-157 and 65: an unknown slug resolves with null at once; a known
\* one sends the GET.
StartGetTests(slug) ==
    IF Find(slug) = Null
    THEN Resolve([IdleTask EXCEPT !.op = "getTests", !.slug = slug], Null)
    ELSE [IdleTask EXCEPT !.op = "getTests", !.slug = slug, !.pc = "get"]

\* Lines 66-70 when getFromCache resumes with the reply to GET.
AfterGetReply(task, got) ==
    [task EXCEPT !.pc = "read", !.cached = got.value,
                 !.readWarn = got.warned, !.threw = got.threw]

\* Lines 157-163 and 98 when getTests resumes after the cache read: a truthy
\* value is returned as it is, anything else sends the upstream request.
AfterGet(task) ==
    IF task.threw THEN Raise(task, "cache")
    ELSE IF Truthy(task.cached) THEN Resolve(task, task.cached)
    ELSE [task EXCEPT !.pc = "fetch", !.fetches = @ + 1]

\* (Variant: a response with another status is treated as an empty page,
\* which is cached.)
AfterFetch_EmptyOnError(task, resp) ==
    IF resp.net = "fail" THEN [task EXCEPT !.pc = "thrown", !.err = "network"]
    ELSE IF resp.status # 200
    THEN [task EXCEPT !.pc = "parsed",
                      !.data = ParseResult(<<>>, Find(task.slug).name)]
    ELSE [task EXCEPT !.pc = "json"]

\* (Variant: a failed request is issued again.)
AfterFetch_Retry(task, resp) ==
    IF resp.net = "fail" \/ resp.status # 200
    THEN [task EXCEPT !.pc = "fetch", !.fetches = @ + 1]
    ELSE [task EXCEPT !.pc = "json"]

\* Lines 98-104 when fetchAndParse resumes with the outcome of fetch: a
\* failed request and a status other than 200 make it throw; else it asks
\* for the body.
AfterFetch(task, resp) ==
    IF resp.net = "fail" THEN [task EXCEPT !.pc = "thrown", !.err = "network"]
    ELSE IF resp.status # 200 THEN [task EXCEPT !.pc = "thrown", !.err = "non200"]
    ELSE [task EXCEPT !.pc = "json"]

\* (Variant: fetchAndParse is given the slug in the place of the name.)
AfterJson_SlugHeading(task) ==
    IF task.resp.body.kind # "json"
    THEN [task EXCEPT !.pc = "thrown", !.err = "badjson"]
    ELSE [task EXCEPT !.pc = "parsed",
                      !.data = ParseResult(task.resp.body.val.html, task.slug)]

\* Lines 104-140 when fetchAndParse resumes with the outcome of
\* result.json(): a body that is no JSON makes it throw; else it parses the
\* fragment and returns.
AfterJson(task) ==
    IF task.resp.body.kind # "json"
    THEN [task EXCEPT !.pc = "thrown", !.err = "badjson"]
    ELSE [task EXCEPT !.pc = "parsed",
                      !.data = ParseResult(task.resp.body.val.html,
                                           Find(task.slug).name)]

\* Lines 163-165 and 83 when getTests resumes after fetchAndParse: its
\* exception rejects getTests; else cache() is called and sends the SET.
AfterFetchAndParse(task) ==
    IF task.pc = "thrown" THEN Raise(task, task.err)
    ELSE [task EXCEPT !.pc = "set"]

\* Lines 83-86 when cache resumes with the reply to SET.
AfterSetReply(task, written) ==
    [task EXCEPT !.pc = "cached", !.writeWarn = written.warned,
                 !.threw = written.threw]

\* Lines 165-167 when getTests resumes after the cache write.
AfterSet(task) ==
    IF task.threw THEN Raise(task, "cache") ELSE Resolve(task, task.data)

\* A caller uses the call slots in order.
NextToInvoke(c) ==
    /\ tasks[c].pc = "idle"
    /\ \A d \in Calls : d < c => tasks[d].pc # "idle"

\* A write under key lands: the clearCache calls that have the listing and
\* have not yet returned take note of it (history, for the properties).
NoteWrite(task, key) ==
    IF task.pc \in {"keysReply", "dels", "joined"}
    THEN [task EXCEPT !.since = @ \cup {key}]
    ELSE task

\* The caller calls getTests(slug), in a turn of its own.
GetTests(c, slug) ==
    /\ TurnOver
    /\ NextToInvoke(c)
    /\ tasks' = [tasks EXCEPT ![c] = StartGetTests(slug)]
    /\ UNCHANGED <<store, stats, queue, draining>>

\* The reply to GET (line 65) is handed over.
GetReply(c, ok) ==
    /\ tasks[c].pc = "get"
    /\ LET key == Key(tasks[c].slug)
       IN tasks' = [tasks EXCEPT ![c] =
                       [@ EXCEPT !.pc = "gotReply",
                                 !.reply = GetReplyOf(key, ok),
                                 !.origin = IF ok /\ store[key] # Null
                                            THEN store[key].value ELSE Null]]
    /\ HandOver(<<Resume(c)>>)
    /\ UNCHANGED <<store, stats>>

\* getFromCache resumes at line 65.
ResumeGetFromCache(c) ==
    /\ tasks[c].pc = "gotReply"
    /\ tasks' = [tasks EXCEPT ![c] = AfterGetReply(@, getFromCache(@.reply))]
    /\ Run(Resume(c), <<Resume(c)>>)
    /\ UNCHANGED <<store, stats>>

\* getTests resumes at line 157.
ResumeAfterGetFromCache(c) ==
    /\ tasks[c].pc = "read"
    /\ tasks' = [tasks EXCEPT ![c] = AfterGet(@)]
    /\ Run(Resume(c), JobsFor(c, tasks'[c]))
    /\ UNCHANGED <<store, stats>>

\* The outcome of fetch (line 98) is handed over.
FetchReply(c, resp) ==
    /\ tasks[c].pc = "fetch"
    /\ tasks' = [tasks EXCEPT ![c] = [@ EXCEPT !.pc = "fetched", !.resp = resp]]
    /\ HandOver(<<Resume(c)>>)
    /\ UNCHANGED <<store, stats>>

\* fetchAndParse resumes at line 98.
ResumeAfterFetch(c) ==
    /\ tasks[c].pc = "fetched"
    /\ tasks' = [tasks EXCEPT ![c] = AfterFetch(@, @.resp)]
    /\ Run(Resume(c), JobsFor(c, tasks'[c]))
    /\ UNCHANGED <<store, stats>>

\* The outcome of result.json() (line 104) is handed over.
JsonReply(c) ==
    /\ tasks[c].pc = "json"
    /\ tasks' = [tasks EXCEPT ![c] = [@ EXCEPT !.pc = "body"]]
    /\ HandOver(<<Resume(c)>>)
    /\ UNCHANGED <<store, stats>>

\* fetchAndParse resumes at line 104.
ResumeAfterJson(c) ==
    /\ tasks[c].pc = "body"
    /\ tasks' = [tasks EXCEPT ![c] = AfterJson(@)]
    /\ Run(Resume(c), JobsFor(c, tasks'[c]))
    /\ UNCHANGED <<store, stats>>

\* getTests resumes at line 163.
ResumeAfterFetchAndParse(c) ==
    /\ tasks[c].pc \in {"parsed", "thrown"}
    /\ tasks' = [tasks EXCEPT ![c] = AfterFetchAndParse(@)]
    /\ Run(Resume(c), JobsFor(c, tasks'[c]))
    /\ UNCHANGED <<store, stats>>

\* The reply to SET (line 83) is handed over; the store has applied it.
SetReply(c, ok) ==
    /\ tasks[c].pc = "set"
    /\ store' = cache(Key(tasks[c].slug), tasks[c].data, ok).store
    /\ tasks' = [d \in TaskIds |->
                   IF d = c
                   THEN [tasks[c] EXCEPT !.pc = "setReply",
                                         !.ack = IF ok THEN "ok" ELSE "error"]
                   ELSE IF ok THEN NoteWrite(tasks[d], Key(tasks[c].slug))
                   ELSE tasks[d]]
    /\ HandOver(<<Resume(c)>>)
    /\ UNCHANGED stats

\* cache resumes at line 83.
ResumeCache(c) ==
    /\ tasks[c].pc = "setReply"
    /\ tasks' = [tasks EXCEPT ![c] =
                    AfterSetReply(@, cache(Key(@.slug), @.data, @.ack = "ok"))]
    /\ Run(Resume(c), <<Resume(c)>>)
    /\ UNCHANGED <<store, stats>>

\* getTests resumes at line 165.
ResumeAfterCache(c) ==
    /\ tasks[c].pc = "cached"
    /\ tasks' = [tasks EXCEPT ![c] = AfterSet(@)]
    /\ Run(Resume(c), JobsFor(c, tasks'[c]))
    /\ UNCHANGED <<store, stats>>

-----------------------------------------------------------------------------
(* clearCache, lines 175-185 *)

\* (Variant: the pattern lacks the wildcard and matches no key.)
KeysOf_Literal(prefix) == {k \in Keys : store[k] # Null /\ k = <<prefix, "">>}

\* The reply to KEYS `${redisPrefix}:*`.
KeysOf(prefix) == {k \in Keys : store[k] # Null /\ k[1] = prefix}

\* (Variant: the first listed key is left out of the deletes.)
AfterKeys_SkipOne(task, ok, keys) ==
    IF ~ok THEN [task EXCEPT !.pc = "done", !.listFail = TRUE, !.cleared = FALSE]
    ELSE IF Cardinality(keys) <= 1 THEN [task EXCEPT !.pc = "joined", !.joinOk = TRUE]
    ELSE [task EXCEPT !.pc = "dels",
                      !.pending = keys \ {CHOOSE k \in keys : TRUE},
                      !.unsettled = keys \ {CHOOSE k \in keys : TRUE}]

\* Lines 177-182 when clearCache resumes with the reply to KEYS: a failed
\* listing is caught and false returned; else one DEL per key is sent and
\* Promise.all awaited, which is resolved from the start when there is no key.
AfterKeys(task, ok, keys) ==
    IF ~ok THEN [task EXCEPT !.pc = "done", !.listFail = TRUE, !.cleared = FALSE]
    ELSE IF keys = {} THEN [task EXCEPT !.pc = "joined", !.joinOk = TRUE]
    ELSE [task EXCEPT !.pc = "dels", !.pending = keys, !.unsettled = keys]

\* (Variant: the result of a delete is not looked at.)
AfterDel_IgnoreFailure(task, key, ok) ==
    IF task.pc = "dels" /\ task.unsettled = {key}
    THEN [task EXCEPT !.pc = "joined", !.joinOk = TRUE, !.unsettled = {}]
    ELSE [task EXCEPT !.unsettled = @ \ {key}]

\* (Variant: the keys are deleted one after the other and the loop stops at
\* the first failure.)
AfterDel_StopAtFailure(task, key, ok) ==
    IF task.pc # "dels" THEN [task EXCEPT !.unsettled = @ \ {key}]
    ELSE IF ~ok
    THEN [task EXCEPT !.pc = "joined", !.joinOk = FALSE, !.unsettled = {},
                      !.pending = {}]
    ELSE IF task.unsettled = {key}
    THEN [task EXCEPT !.pc = "joined", !.joinOk = TRUE, !.unsettled = {}]
    ELSE [task EXCEPT !.unsettled = @ \ {key}]

\* (Variant: a failed delete is waited for until it succeeds.)
AfterDel_AwaitSuccess(task, key, ok) ==
    IF task.pc # "dels" THEN [task EXCEPT !.unsettled = @ \ {key}]
    ELSE IF ~ok THEN task
    ELSE IF task.unsettled = {key}
    THEN [task EXCEPT !.pc = "joined", !.joinOk = TRUE, !.unsettled = {}]
    ELSE [task EXCEPT !.unsettled = @ \ {key}]

\* Promise.all over the deletes (line 178) when it takes note that the DEL of
\* key settled: it rejects on the first failure it sees and resolves when it
\* has seen the last delete succeed.  What it sees after it settled changes
\* nothing for clearCache.
AfterDel(task, key, ok) ==
    IF task.pc # "dels" THEN [task EXCEPT !.unsettled = @ \ {key}]
    ELSE IF ~ok
    THEN [task EXCEPT !.pc = "joined", !.joinOk = FALSE, !.unsettled = @ \ {key}]
    ELSE IF task.unsettled = {key}
    THEN [task EXCEPT !.pc = "joined", !.joinOk = TRUE, !.unsettled = {}]
    ELSE [task EXCEPT !.unsettled = @ \ {key}]

\* Lines 178-184 when clearCache resumes after Promise.all: its rejection is
\* caught and false returned; else true is returned.
AfterDels(task) == [task EXCEPT !.pc = "done", !.cleared = task.joinOk]

\* The caller calls clearCache(), in a turn of its own: the KEYS is sent.
ClearCache(c) ==
    /\ TurnOver
    /\ NextToInvoke(c)
    /\ tasks' = [tasks EXCEPT ![c] = [IdleTask EXCEPT !.op = "clearCache",
                                                      !.pc = "keys"]]
    /\ UNCHANGED <<store, stats, queue, draining>>

\* The reply to KEYS (line 177) is handed over.
KeysReply(c, ok) ==
    /\ tasks[c].pc = "keys"
    /\ tasks' = [tasks EXCEPT ![c] =
                    [@ EXCEPT !.pc = "keysReply",
                              !.ack = IF ok THEN "ok" ELSE "error",
                              !.listed = IF ok THEN KeysOf(redisPrefix) ELSE {}]]
    /\ HandOver(<<Resume(c)>>)
    /\ UNCHANGED <<store, stats>>

\* clearCache resumes at line 177.
ResumeAfterKeys(c) ==
    /\ tasks[c].pc = "keysReply"
    /\ tasks' = [tasks EXCEPT ![c] = AfterKeys(@, @.ack = "ok", @.listed)]
    /\ Run(Resume(c), JobsFor(c, tasks'[c]))
    /\ UNCHANGED <<store, stats>>

\* The reply to the DEL of key (line 178) is handed over; the store has
\* applied it.
DelReply(c, key, ok) ==
    /\ key \in tasks[c].pending
    /\ store' = IF ok THEN [store EXCEPT ![key] = Null] ELSE store
    /\ tasks' = [tasks EXCEPT ![c] =
                    [@ EXCEPT !.pending = @ \ {key},
                              !.failed = IF ok THEN @ ELSE @ \cup {key}]]
    /\ HandOver(<<DelSettled(c, key, ok)>>)
    /\ UNCHANGED stats

\* Promise.all of line 178 takes note of a settled delete.
SettleDel(c, key, ok) ==
    /\ tasks' = [tasks EXCEPT ![c] = AfterDel(@, key, ok)]
    /\ Run(DelSettled(c, key, ok),
           IF tasks[c].pc = "dels" THEN JobsFor(c, tasks'[c]) ELSE <<>>)
    /\ UNCHANGED <<store, stats>>

\* clearCache resumes at line 178.
ResumeAfterDels(c) ==
    /\ tasks[c].pc = "joined"
    /\ tasks' = [tasks EXCEPT ![c] = AfterDels(@)]
    /\ Run(Resume(c), <<>>)
    /\ UNCHANGED <<store, stats>>

-----------------------------------------------------------------------------
(* getStats, lines 192-228 *)

\* The subsequence of the calls of getStats, in the order of schools, that
\* have settled.
SettledSubs(t) ==
    SelectSeq([i \in SchoolIdx |-> SubOf(i)], LAMBDA s : Settled(t[s]))

\* The caller calls getStats(), in a turn of its own: lines 192-198, all
\* getTests calls are started, each up to its first await, and Promise.all is
\* awaited.
GetStats ==
    /\ TurnOver
    /\ stats.pc = "idle"
    /\ tasks' = [c \in TaskIds |->
                   IF c \in Subs THEN StartGetTests(schools[c - NumCalls].slug)
                   ELSE tasks[c]]
    /\ stats' = [stats EXCEPT !.pc = "waiting", !.unsettled = Subs]
    /\ queue' = [i \in 1..Len(SettledSubs(tasks')) |->
                    CallSettled(SettledSubs(tasks')[i])]
    /\ draining' = (queue' # <<>>)
    /\ UNCHANGED store

\* Promise.all of line 198 takes note of a settled getTests call.
SettleGetTests(s) ==
    /\ stats' = Join(stats, s, tasks)
    /\ Run(CallSettled(s),
           IF stats.pc = "waiting" /\ stats'.pc = "joined"
           THEN <<ResumeStats>> ELSE <<>>)
    /\ UNCHANGED <<store, tasks>>

\* getStats resumes at line 198.
ResumeGetStats ==
    /\ stats.pc = "joined"
    /\ stats' = AfterJoin(stats)
    /\ Run(ResumeStats, <<>>)
    /\ UNCHANGED <<store, tasks>>

-----------------------------------------------------------------------------
(* The store's clock and its other clients *)

\* One second passes between two turns: every expiring entry loses a second,
\* and an entry whose time is up is gone.
Tick ==
    /\ TurnOver
    /\ \E k \in Keys : store[k] # Null /\ store[k].ttl > 0
    /\ store' = [k \in Keys |->
                   IF store[k] = Null \/ store[k].ttl = NoExpiry THEN store[k]
                   ELSE IF store[k].ttl = 1 THEN Null
                   ELSE [store[k] EXCEPT !.ttl = @ - 1]]
    /\ UNCHANGED <<tasks, stats, queue, draining>>

\* Another client of the store writes under a key of this module, between
\* two turns.
ForeignSet(key, text) ==
    /\ TurnOver
    /\ store[key] # [text |-> text, ttl |-> NoExpiry, value |-> Null]
    /\ store' = [store EXCEPT ![key] =
                    [text |-> text, ttl |-> NoExpiry, value |-> Null]]
    /\ tasks' = [d \in TaskIds |-> NoteWrite(tasks[d], key)]
    /\ UNCHANGED <<stats, queue, draining>>

-----------------------------------------------------------------------------
(* Specifications *)

\* The ids of the divisions.
Ids == {schools[i].id : i \in SchoolIdx}

\* Another reply can be handed over in this turn when at most chunk replies
\* come in one turn.
RoomFor(chunk) == Len(queue) < chunk

\* The steps of the getTests calls ids, with the store answering its
\* requests as oks allows (TRUE: it answers, FALSE: it reports an error), the
\* upstream answering the request for division id with one of serves[id],
\* and at most chunk replies coming in one turn.
TestsReplies(ids, oks, serves, chunk) ==
    \E c \in ids :
        \/ /\ RoomFor(chunk)
           /\ \/ \E ok \in oks : GetReply(c, ok)
              \/ /\ tasks[c].pc = "fetch"
                 /\ \E resp \in serves[Find(tasks[c].slug).id] : FetchReply(c, resp)
              \/ JsonReply(c)
              \/ \E ok \in oks : SetReply(c, ok)
        \/ ResumeGetFromCache(c)
        \/ ResumeAfterGetFromCache(c)
        \/ ResumeAfterFetch(c)
        \/ ResumeAfterJson(c)
        \/ ResumeAfterFetchAndParse(c)
        \/ ResumeCache(c)
        \/ ResumeAfterCache(c)

\* The steps of the clearCache calls.
ClearReplies(oks, chunk) ==
    \E c \in Calls :
        \/ /\ RoomFor(chunk)
           /\ \/ \E ok \in oks : KeysReply(c, ok)
              \/ \E key \in Keys, ok \in oks : DelReply(c, key, ok)
        \/ ResumeAfterKeys(c)
        \/ \E key \in Keys, ok \in oks : SettleDel(c, key, ok)
        \/ ResumeAfterDels(c)

\* The steps of getStats after its call.
StatsSteps ==
    \/ \E s \in Subs : SettleGetTests(s)
    \/ ResumeGetStats

Invoke ==
    \E c \in Calls :
        \/ \E slug \in InputSlugs : GetTests(c, slug)
        \/ ClearCache(c)

\* Concurrent callers of getTests and clearCache on a store shared with
\* other clients.
Next ==
    \/ Invoke
    \/ TestsReplies(Calls, BOOLEAN, [id \in Ids |-> Responses(id)], MaxChunk)
    \/ ClearReplies(BOOLEAN, MaxChunk)
    \/ Tick
    \/ \E slug \in InputSlugs, text \in ForeignTexts :
          Find(slug) # Null /\ ForeignSet(Key(slug), text)

Spec == Init /\ [][Next]_vars

\* No call of the caller is in flight.
Quiet == \A c \in Calls : tasks[c].pc \in {"idle", "done", "raised"}

\* One caller that makes its calls one after the other, on a store of its own.
NextSeq ==
    \/ Quiet /\ Invoke
    \/ TestsReplies(Calls, BOOLEAN, [id \in Ids |-> Responses(id)], MaxChunk)
    \/ ClearReplies(BOOLEAN, MaxChunk)
    \/ Tick

SpecSeq == Init /\ [][NextSeq]_vars

\* An upstream that answers every request and whose pages do not change: the
\* response with status 200 and the page of the division.
Pages(id) ==
    {Response(200, JsonText([html |-> IF id = 1 THEN DocA
                                      ELSE IF id = 2 THEN DocB
                                      ELSE DocNone]))}

\* An upstream that answers with the page of the division or fails: no
\* response for the second division, status 500 for the others.
PagesOrError(id) ==
    Pages(id) \cup {IF id = 2 THEN NetFail ELSE Response(500, BadText)}

\* One getStats call on a store that answers every request.
NextStats ==
    \/ GetStats
    \/ TestsReplies(Subs, {TRUE}, [id \in Ids |-> PagesOrError(id)], MaxChunk)
    \/ StatsSteps

SpecStats == Init /\ [][NextStats]_vars

\* The store with no key in it.
InitEmpty ==
    /\ store = [k \in Keys |-> Null]
    /\ tasks = [c \in TaskIds |-> IdleTask]
    /\ stats = IdleStats
    /\ queue = <<>>
    /\ draining = FALSE

\* The calls of a caller that asks for the first division or clears the cache.
InvokeBeside ==
    \E c \in Calls :
        \/ GetTests(c, schools[1].slug)
        \/ ClearCache(c)

\* A caller that makes such calls one after the other while a getStats call
\* is under way, on a store of their own that starts empty and answers every
\* request; the replies come one in a turn.
NextAll ==
    \/ Quiet /\ InvokeBeside
    \/ GetStats
    \/ TestsReplies(TaskIds, {TRUE}, [id \in Ids |-> Pages(id)], 1)
    \/ ClearReplies({TRUE}, 1)
    \/ StatsSteps

SpecAll == InitEmpty /\ [][NextAll]_vars

\* An upstream that may fail for the first two divisions.
Unsteady == [id \in Ids |-> IF id <= 2 THEN PagesOrError(id) ELSE Pages(id)]

\* A caller that either calls getStats or makes its getTests and clearCache
\* calls one after the other; the replies come one in a turn.
NextLive ==
    \/ (\A c \in Calls : tasks[c].pc = "idle") /\ GetStats
    \/ TestsReplies(Subs, {TRUE}, Unsteady, 1)
    \/ StatsSteps
    \/ stats.pc = "idle" /\ Quiet /\ Invoke
    \/ TestsReplies(Calls, BOOLEAN, Unsteady, 1)
    \/ ClearReplies(BOOLEAN, 1)

\* The request of getStats for the first division, which the upstream may
\* leave without an answer.
HungCall == SubOf(1)

\* A store or upstream operation in flight completes, with success or with
\* failure, or the job at the head of the queue runs; the request of
\* HungCall is left out.
Completion ==
    \/ TestsReplies(Subs \ {HungCall}, {TRUE}, Unsteady, 1)
    \/ /\ RoomFor(1)
       /\ GetReply(HungCall, TRUE) \/ JsonReply(HungCall) \/ SetReply(HungCall, TRUE)
    \/ ResumeGetFromCache(HungCall) \/ ResumeAfterGetFromCache(HungCall)
    \/ ResumeAfterFetch(HungCall) \/ ResumeAfterJson(HungCall)
    \/ ResumeAfterFetchAndParse(HungCall)
    \/ ResumeCache(HungCall) \/ ResumeAfterCache(HungCall)
    \/ StatsSteps
    \/ TestsReplies(Calls, BOOLEAN, Unsteady, 1)
    \/ ClearReplies(BOOLEAN, 1)

\* Every operation other than the request of HungCall completes as long as
\* one is in flight, and node runs the jobs of the queue.
SpecLive == Init /\ [][NextLive]_vars /\ WF_vars(Completion)

\* One getStats call on a store that answers every request, with an upstream
\* that answers every request with one of the pages of the division; the
\* replies come one in a turn.
NextFresh ==
    \/ GetStats
    \/ TestsReplies(Subs, {TRUE}, [id \in Ids |-> Answers(id)], 1)
    \/ StatsSteps

SpecFresh == Init /\ [][NextFresh]_vars

\* What earlier getTests calls may have left under the key of school i:
\* nothing, or what cache() wrote for one of the division's pages.
Leftovers(i) ==
    {Null} \cup {EntryOf(ParseResult(doc, schools[i].name), REDIS_EXPIRE) :
                    doc \in Content(schools[i].id)}

InitWarm ==
    /\ \E e1 \in Leftovers(1), e2 \in Leftovers(2), e3 \in Leftovers(3),
          e4 \in Leftovers(4), e5 \in Leftovers(5) :
          store = [k \in Keys |->
                     IF k = ForeignKey
                     THEN [text |-> BadText, ttl |-> NoExpiry, value |-> Null]
                     ELSE LET i == CHOOSE j \in SchoolIdx : k = Key(schools[j].slug)
                          IN <<e1, e2, e3, e4, e5>>[i]]
    /\ tasks = [c \in TaskIds |-> IdleTask]
    /\ stats = IdleStats
    /\ queue = <<>>
    /\ draining = FALSE

\* One getStats call on a store that holds earlier results.
SpecWarm == InitWarm /\ [][NextFresh]_vars

\* The store holds nothing, or what an earlier getTests call left under the
\* key of the second division.
InitLeft ==
    /\ \E e \in Leftovers(2) :
          store = [k \in Keys |-> IF k = Key(schools[2].slug) THEN e ELSE Null]
    /\ tasks = [c \in TaskIds |-> IdleTask]
    /\ stats = IdleStats
    /\ queue = <<>>
    /\ draining = FALSE

\* Concurrent callers of getTests and clearCache on a store of their own that
\* answers every request, with an upstream that answers every request.
NextClear ==
    \/ Invoke
    \/ TestsReplies(Calls, {TRUE}, [id \in Ids |-> Pages(id)], MaxChunk)
    \/ ClearReplies({TRUE}, MaxChunk)

SpecClear == InitLeft /\ [][NextClear]_vars
-----------------------------------------------------------------------------
(* Properties *)

\* The slug is the slug of a registered division.
Registered(slug) == \E i \in SchoolIdx : schools[i].slug = slug

\* The display name registered under a slug.
NameOf(slug) == schools[CHOOSE i \in SchoolIdx : schools[i].slug = slug].name

IsDivisionResult(v) == v # Null /\ DOMAIN v = {"heading", "departments"}

IsGetTests(c) == tasks[c].op = "getTests"

IsClearCache(c) == tasks[c].op = "clearCache"

\* What the upstream pipeline gives the call for the response it received.
FetchedBy(c) ==
    ParseResult(tasks[c].resp.body.val.html, NameOf(tasks[c].slug))

\* Where a call is between sending its upstream request and returning.
Upstreamward ==
    {"fetch", "fetched", "json", "body", "parsed", "thrown", "set", "setReply",
     "cached"}

\* The cache write of the call was acknowledged.
Acked(c) == IsGetTests(c) /\ tasks[c].ack = "ok"

\* The call took the miss path, its cache write was acknowledged and it
\* returned.
Wrote(c) == Acked(c) /\ tasks[c].pc = "done" /\ tasks[c].fetches = 1

\* C1: getTests(slug) resolves with null exactly for the slugs that are not
\* registered: such a call resolves with null at once, without reading the
\* cache or asking the upstream, and never rejects; a call for a registered
\* slug that resolves resolves with a DivisionResult, never with null.
C1_AbsentIffUnknown ==
    \A c \in TaskIds : IsGetTests(c) =>
        /\ ~Registered(tasks[c].slug) =>
              /\ tasks[c].pc = "done" /\ tasks[c].result = Null
              /\ tasks[c].fetches = 0 /\ ~tasks[c].readWarn
              /\ tasks[c].reply = Null
        /\ Registered(tasks[c].slug) /\ tasks[c].pc = "done" =>
              IsDivisionResult(tasks[c].result)

\* An unknown slug was answered with null while a registered slug of the same
\* behaviour was answered with data and the store holds an entry.
C1_Witness ==
    \E c, d \in Calls :
        /\ IsGetTests(c) /\ ~Registered(tasks[c].slug)
        /\ tasks[c].pc = "done" /\ tasks[c].result = Null
        /\ IsGetTests(d) /\ Registered(tasks[d].slug)
        /\ tasks[d].pc = "done" /\ IsDivisionResult(tasks[d].result)
        /\ store[Key(tasks[d].slug)] # Null

\* C2: a getTests call that is served from an entry an earlier call cached
\* returns the very data that call returned and asks the upstream nothing.
C2_RoundTripIdentical ==
    \A c \in Calls :
        (IsGetTests(c) /\ tasks[c].pc = "done" /\ tasks[c].origin # Null) =>
            /\ tasks[c].fetches = 0
            /\ tasks[c].result = tasks[c].origin

\* The reply to the GET of the call was an error of the store or a text that
\* does not decode.
ReadFailed(t) == t.reply # Null /\ (~t.reply.ok \/ ~Parse(t.reply.raw).ok)

\* C3: a failed cache read (store error or undecodable text) is logged and
\* sends the call down the miss path to the upstream; a failed cache write is
\* logged and the call still resolves with the data it fetched; no call
\* rejects with an error of the cache.
C3_CacheFailuresAbsorbed ==
    \A c \in Calls : IsGetTests(c) =>
        LET t == tasks[c] IN
        /\ ~t.threw
        /\ t.pc = "raised" => t.err \in {"network", "non200", "badjson"}
        /\ (ReadFailed(t) /\ t.pc # "gotReply") => t.readWarn
        /\ t.readWarn =>
              /\ ReadFailed(t) /\ t.cached = Null /\ t.origin = Null
              /\ t.pc \in {"read", "done", "raised"} \cup Upstreamward
              /\ t.fetches = IF t.pc = "read" THEN 0 ELSE 1
        /\ (t.ack = "error" /\ t.pc # "setReply") => t.writeWarn
        /\ t.writeWarn =>
              /\ t.ack = "error" /\ t.pc \in {"cached", "done"}
              /\ t.data = FetchedBy(c)
              /\ t.pc = "done" => t.result = FetchedBy(c)

\* A call whose cache read failed and whose cache write failed resolved with
\* the fetched data, the undecodable text still being in the store.
C3_Witness ==
    \E c \in Calls :
        /\ IsGetTests(c) /\ tasks[c].pc = "done"
        /\ tasks[c].readWarn /\ tasks[c].writeWarn
        /\ tasks[c].result = FetchedBy(c)
        /\ store[Key(tasks[c].slug)] # Null
        /\ store[Key(tasks[c].slug)].text = BadText

\* The failure a response stands for, "" when it is a success.
FailureOf(resp) ==
    IF resp.net = "fail" THEN "network"
    ELSE IF resp.status # 200 THEN "non200"
    ELSE IF resp.body.kind # "json" THEN "badjson"
    ELSE ""

\* C4: a getTests call issues at most one upstream request; when that request
\* fails (no response, a status other than 200, a body that is no JSON) the
\* call rejects with that failure, and it rejects for no other reason; a call
\* that rejected wrote nothing to the cache.
C4_UpstreamFailureRaised ==
    \A c \in TaskIds : IsGetTests(c) =>
        /\ tasks[c].fetches <= 1
        /\ (tasks[c].resp # Null /\ FailureOf(tasks[c].resp) # "") =>
              \/ tasks[c].pc = "fetched"
              \/ /\ tasks[c].pc \in {"json", "body"}
                 /\ FailureOf(tasks[c].resp) = "badjson"
              \/ /\ tasks[c].pc \in {"thrown", "raised"}
                 /\ tasks[c].err = FailureOf(tasks[c].resp)
        /\ tasks[c].pc \in {"thrown", "raised"} =>
              /\ tasks[c].fetches = 1
              /\ tasks[c].resp # Null /\ tasks[c].err = FailureOf(tasks[c].resp)
              /\ tasks[c].data = Null /\ tasks[c].ack = ""
              /\ ~tasks[c].writeWarn

\* Calls rejected with a status other than 200 and with an undecodable body,
\* each after one request.
C4_Witness ==
    \E c, d \in Calls :
        /\ IsGetTests(c) /\ tasks[c].pc = "raised" /\ tasks[c].err = "non200"
        /\ tasks[c].fetches = 1
        /\ IsGetTests(d) /\ tasks[d].pc = "raised" /\ tasks[d].err = "badjson"
        /\ tasks[d].fetches = 1

\* The call found no usable entry: it went on to the upstream.
Missed(c) ==
    /\ IsGetTests(c) /\ Registered(tasks[c].slug)
    /\ tasks[c].pc \in {"done", "raised"} \cup Upstreamward
    /\ tasks[c].origin = Null

\* The calls for a slug whose cache write was acknowledged.
WritersOf(slug) == {c \in TaskIds : Acked(c) /\ tasks[c].slug = slug}

\* Every call that misses issues a request of its own and resolves with what
\* that request gave it, and an entry this module wrote is, text and all, the
\* result of one of the calls that wrote it.
C5_State ==
    /\ \A c \in Calls : Missed(c) =>
          /\ tasks[c].fetches = 1
          /\ tasks[c].pc = "done" =>
                /\ IsDivisionResult(tasks[c].result)
                /\ tasks[c].result = FetchedBy(c)
                /\ tasks[c].result = tasks[c].data
    /\ \A i \in SchoolIdx :
          LET e == store[Key(schools[i].slug)] IN
          (e # Null /\ e.value # Null) =>
              \E c \in WritersOf(schools[i].slug) :
                  /\ e.value = tasks[c].data
                  /\ e.text = Stringify(tasks[c].data)

\* The reply to the SET of call c is handed over in this step and is no error.
WriteLands(c) ==
    tasks[c].pc = "set" /\ tasks'[c].pc = "setReply" /\ tasks'[c].ack = "ok"

\* An acknowledged cache write replaces the entry by the writer's result.
C5_Step ==
    \A c \in Calls :
        WriteLands(c) =>
            /\ store'[Key(tasks[c].slug)].value = tasks[c].data
            /\ store'[Key(tasks[c].slug)].text = Stringify(tasks[c].data)

\* C5: concurrent getTests calls for one slug that both miss each issue their
\* own upstream request and resolve with their own result, and the entry they
\* leave is the complete result of the call whose write came last.
C5_LastWriteWins == []C5_State /\ [][C5_Step]_vars

\* Two calls for one slug both found the key absent, fetched different
\* results and wrote them; the entry is the result of the call made first,
\* whose write therefore came last.
C5_Witness ==
    /\ Wrote(1) /\ Wrote(2) /\ tasks[1].slug = tasks[2].slug
    /\ Missed(1) /\ Missed(2) /\ ~tasks[1].readWarn /\ ~tasks[2].readWarn
    /\ tasks[1].result # tasks[2].result
    /\ store[Key(tasks[1].slug)] # Null
    /\ store[Key(tasks[1].slug)].value = tasks[1].result

\* No call was made after call c.
LastCall(c) == \A d \in Calls : d > c => tasks[d].pc = "idle"

PrefixKeysInStore == {k \in Keys : store[k] # Null /\ MatchesPrefix(k)}

\* C6: when clearCache resolved with true (and the caller made no call since)
\* no key under the prefix is in the store; keys outside the prefix are left.
C6_ClearRemovesAll ==
    /\ \A c \in Calls :
          (IsClearCache(c) /\ tasks[c].pc = "done" /\ tasks[c].cleared
              /\ LastCall(c)) => PrefixKeysInStore = {}
    /\ store[ForeignKey] # Null

\* clearCache listed a key, deleted it and resolved with true.
C6_Witness ==
    \E c \in Calls :
        /\ IsClearCache(c) /\ tasks[c].pc = "done" /\ tasks[c].cleared
        /\ tasks[c].listed # {} /\ LastCall(c)

\* C7: clearCache never rejects, and it resolves with false exactly when the
\* listing failed or a delete failed; when it resolved with true every listed
\* key was deleted and no delete is in flight.
C7_ClearResult ==
    \A c \in Calls : IsClearCache(c) =>
        /\ tasks[c].pc # "raised"
        /\ tasks[c].pc = "done" =>
              /\ ~tasks[c].cleared <=> (tasks[c].listFail \/ tasks[c].failed # {})
              /\ tasks[c].cleared => tasks[c].pending = {}

\* clearCache resolved with false because a delete failed, and another
\* clearCache resolved with true after deleting a key.
C7_Witness ==
    \E c, d \in Calls :
        /\ IsClearCache(c) /\ tasks[c].pc = "done" /\ ~tasks[c].cleared
        /\ ~tasks[c].listFail /\ tasks[c].failed # {}
        /\ IsClearCache(d) /\ tasks[d].pc = "done" /\ tasks[d].cleared
        /\ tasks[d].listed # {}

RaisedSubs == {s \in Subs : tasks[s].pc = "raised"}

\* C8: getStats rejects in the turn in which one of its getTests calls
\* rejects, with the error of such a call, and resolves only when all of them
\* resolved, with the statistics of all their results.
C8_StatsFailFast ==
    /\ (TurnOver /\ RaisedSubs # {}) => stats.pc = "raised"
    /\ stats.pc = "raised" =>
          /\ RaisedSubs # {}
          /\ stats.err \in {tasks[s].err : s \in RaisedSubs}
          /\ stats.result = Null
    /\ stats.pc = "done" =>
          /\ \A s \in Subs : tasks[s].pc = "done"
          /\ stats.result = StatsOf([i \in SchoolIdx |-> tasks[SubOf(i)].result])

\* getStats rejected although four of the five lookups resolved.
C8_Witness ==
    /\ stats.pc = "raised"
    /\ Cardinality(RaisedSubs) = 1
    /\ \A s \in Subs \ RaisedSubs : tasks[s].pc = "done"

\* An earlier call of the caller cached the slug's result.
CachedBefore(c) ==
    \E d \in Calls : d < c /\ Wrote(d) /\ tasks[d].slug = tasks[c].slug

\* The entry was gone when the store answered the GET of the call.
FoundNothing(t) == t.reply # Null /\ t.reply.ok /\ t.reply.raw = Null

\* When the entry an earlier call cached is gone at the time of the read, the
\* call takes it for a miss and goes to the upstream.
C9_State ==
    \A c \in Calls :
        (IsGetTests(c) /\ CachedBefore(c) /\ FoundNothing(tasks[c])) =>
            /\ ~tasks[c].readWarn /\ tasks[c].cached = Null
            /\ tasks[c].pc \in {"gotReply", "read", "done", "raised"}
                                  \cup Upstreamward
            /\ tasks[c].fetches = IF tasks[c].pc \in {"gotReply", "read"}
                                  THEN 0 ELSE 1
            /\ tasks[c].pc = "done" => tasks[c].result = FetchedBy(c)

\* An acknowledged cache write leaves the new result in the store with the
\* configured time to live.
C9_Step ==
    \A c \in Calls :
        WriteLands(c) =>
            /\ store'[Key(tasks[c].slug)].ttl = REDIS_EXPIRE
            /\ store'[Key(tasks[c].slug)].value = tasks[c].data

\* C9: after the entry of a slug expired, the next getTests call for the slug
\* misses, issues a fresh upstream request and caches the new result with the
\* configured time to live.
C9_FreshAfterExpiry == []C9_State /\ [][C9_Step]_vars

\* The first call cached its result; the second call of the same slug, made
\* after the first returned, read the store without error, found nothing,
\* fetched and cached its own result, which is in the store with the full
\* time to live.
C9_Witness ==
    /\ Wrote(1) /\ Wrote(2) /\ tasks[1].slug = tasks[2].slug
    /\ FoundNothing(tasks[2]) /\ tasks[2].fetches = 1
    /\ store[Key(tasks[2].slug)] # Null
    /\ store[Key(tasks[2].slug)].ttl = REDIS_EXPIRE
    /\ store[Key(tasks[2].slug)].value = tasks[2].result

\* C10: on a cold cache every registered slug's getTests call that resolves
\* resolves with a DivisionResult whose heading is the display name of the
\* division registered under the slug.
C10_HeadingIsName ==
    \A i \in SchoolIdx :
        LET t == tasks[SubOf(i)] IN
        (t.op = "getTests" /\ t.pc = "done") =>
            /\ t.slug = schools[i].slug
            /\ t.origin = Null /\ t.fetches = 1
            /\ IsDivisionResult(t.result)
            /\ t.result.heading = schools[i].name

\* The calls for all five registered slugs resolved from the upstream.
C10_Witness ==
    \A i \in SchoolIdx :
        /\ tasks[SubOf(i)].pc = "done" /\ tasks[SubOf(i)].fetches = 1
        /\ tasks[SubOf(i)].result.heading = schools[i].name

-----------------------------------------------------------------------------
(* Aggregation properties *)

\* The results the getTests calls of getStats resolved with, by school.
SubResults == [i \in SchoolIdx |-> tasks[SubOf(i)].result]

\* The positions <<school, department, test>> of the tests in the results.
TestSlots(all) ==
    UNION {UNION {{<<i, j, k>> : k \in 1..Len(all[i].departments[j].tests)} :
                    j \in 1..Len(all[i].departments)} :
             i \in 1..Len(all)}

StudentsAt(all, slot) ==
    all[slot[1]].departments[slot[2]].tests[slot[3]].students

RECURSIVE SumAt(_, _)
SumAt(all, slots) ==
    IF slots = {} THEN 0
    ELSE LET slot == CHOOSE x \in slots : TRUE
         IN StudentsAt(all, slot).n + SumAt(all, slots \ {slot})

\* The sum of the students values as JavaScript adds numbers: NaN as soon as
\* one of them is NaN.
SumOfStudents(all) ==
    IF \E slot \in TestSlots(all) : StudentsAt(all, slot).k = "nan" THEN NaN
    ELSE Num(SumAt(all, TestSlots(all)))

\* The student counts of the tests, as a bag.
StudentCounts(all) ==
    [n \in {StudentsAt(all, slot) : slot \in TestSlots(all)} |->
        Cardinality({slot \in TestSlots(all) : StudentsAt(all, slot) = n})]

\* C11: when all getTests calls of getStats resolved, in whatever order they
\* completed, numTests is the number of tests over all divisions and
\* departments and numStudents is the sum of their students values; tests
\* with 3, 10 and 1 students give numTests 3, numStudents 14 and the
\* averageStudents text "4.67".
C11_CountAndSum ==
    stats.pc = "done" =>
        /\ \A s \in Subs : tasks[s].pc = "done"
        /\ stats.result.numTests = Cardinality(TestSlots(SubResults))
        /\ stats.result.numStudents = SumOfStudents(SubResults)
        /\ StudentCounts(SubResults)
               = (Num(3) :> 1) @@ (Num(10) :> 1) @@ (Num(1) :> 1)
           => /\ stats.result.numTests = 3
              /\ stats.result.numStudents = Num(14)
              /\ stats.result.averageStudents
                    = [text |-> "fixed", hundredths |-> 467]

\* getStats resolved over the tests with 3, 10 and 1 students, which come from
\* two divisions.
C11_Witness ==
    /\ stats.pc = "done"
    /\ StudentCounts(SubResults)
          = (Num(3) :> 1) @@ (Num(10) :> 1) @@ (Num(1) :> 1)
    /\ stats.result.numTests = 3
    /\ stats.result.numStudents = Num(14)

\* The student counts are all numbers.
AllCounted(all) ==
    \A slot \in TestSlots(all) : StudentsAt(all, slot).k = "num"

Smallest(all) ==
    CHOOSE n \in {StudentsAt(all, slot).n : slot \in TestSlots(all)} :
        \A slot \in TestSlots(all) : n <= StudentsAt(all, slot).n

Largest(all) ==
    CHOOSE n \in {StudentsAt(all, slot).n : slot \in TestSlots(all)} :
        \A slot \in TestSlots(all) : n >= StudentsAt(all, slot).n

\* C12: when getStats resolved over at least one test and all student counts
\* are non-negative integers, min is the smallest and max the largest of the
\* counts.
C12_MinMax ==
    (/\ stats.pc = "done"
     /\ TestSlots(SubResults) # {}
     /\ AllCounted(SubResults)) =>
        /\ stats.result.min = Num(Smallest(SubResults))
        /\ stats.result.max = Num(Largest(SubResults))

\* C13: when all getTests calls of getStats resolved and their results hold
\* no test at all, getStats does not reject: in the turn in which the last
\* of them resolves it resolves with numTests 0, numStudents 0, the seeds 999
\* and 0 as min and max, and the averageStudents text "NaN" (0 / 0).
C13_NoTests ==
    ((\A s \in Subs : tasks[s].pc = "done") /\ TestSlots(SubResults) = {}) =>
        /\ stats.pc \in {"waiting", "joined", "done"}
        /\ TurnOver => stats.pc = "done"
        /\ stats.pc = "done" =>
              /\ stats.result.numTests = 0
              /\ stats.result.numStudents = Num(0)
              /\ stats.result.min = Num(999)
              /\ stats.result.max = Num(0)
              /\ stats.result.averageStudents.text = "NaN"

\* getStats resolved over results without tests, one of which has a
\* department.
C13_Witness ==
    /\ stats.pc = "done"
    /\ TestSlots(SubResults) = {}
    /\ \E i \in SchoolIdx : SubResults[i].departments # <<>>
    /\ stats.result.averageStudents.text = "NaN"

-----------------------------------------------------------------------------
(* Parsing properties *)

\* The call received a page from the upstream and parsed it.
Parsed(c) ==
    /\ IsGetTests(c) /\ tasks[c].resp # Null
    /\ FailureOf(tasks[c].resp) = ""
    /\ tasks[c].pc \notin {"fetched", "json", "body"}

\* The fragment the call received.
PageOf(c) == tasks[c].resp.body.val.html

\* The positions of the h3 elements of a fragment.
HeadingsOf(doc) == {i \in 1..Len(doc) : doc[i].tag = "h3"}

\* The test the code is to make of a table row.
RowAsTest(row) ==
    [course |-> Trim(row[1]), name |-> Trim(row[2]), type |-> Trim(row[3]),
     students |-> Number(Trim(row[4])), date |-> Trim(row[5])]

\* C14: the parse of a page gives one department per h3, in document order;
\* the tests of a department are the body rows, in order and cell by cell, of
\* the table that is the heading's next sibling, and there are none when the
\* next sibling is no table; a page without h3 gives no departments, and the
\* parse raises no error.
C14_DepartmentPerHeading ==
    \A c \in Subs : Parsed(c) =>
        LET doc == PageOf(c)
            deps == tasks[c].data.departments
        IN /\ tasks[c].pc \in {"parsed", "set", "setReply", "cached", "done"}
           /\ Len(deps) = Cardinality(HeadingsOf(doc))
           /\ HeadingsOf(doc) = {} => deps = <<>>
           /\ \A i \in HeadingsOf(doc) :
                 LET dep == deps[Cardinality({j \in HeadingsOf(doc) : j <= i})]
                 IN /\ dep.heading = Trim(doc[i].text)
                    /\ IF i + 1 <= Len(doc) /\ doc[i + 1].tag = "table"
                       THEN /\ Len(dep.tests) = Len(doc[i + 1].rows)
                            /\ \A j \in 1..Len(dep.tests) :
                                  dep.tests[j] = RowAsTest(doc[i + 1].rows[j])
                       ELSE dep.tests = <<>>

\* Three pages were parsed: one with two headings each followed by its table,
\* one without headings, and, for the first division, one whose last heading
\* is followed by a paragraph.
C14_Witness ==
    /\ \A c \in Subs : tasks[c].pc = "done"
    /\ PageOf(SubOf(1)) = DocB /\ Len(tasks[SubOf(1)].result.departments) = 2
    /\ tasks[SubOf(1)].result.departments[2].tests = <<>>
    /\ PageOf(SubOf(2)) = DocC /\ Len(tasks[SubOf(2)].result.departments) = 2
    /\ \A d \in 1..2 : Len(tasks[SubOf(2)].result.departments[d].tests) = 1
    /\ PageOf(SubOf(3)) = DocNone /\ tasks[SubOf(3)].result.departments = <<>>

-----------------------------------------------------------------------------
(* Properties of clearCache under failing deletes and concurrent writes *)

\* The listed keys whose delete was acknowledged.
Deleted(c) == tasks[c].listed \ (tasks[c].pending \cup tasks[c].failed)

\* The deletes of all listed keys are issued together; no delete has failed
\* while clearCache waits between two turns, and it returns false when one
\* failed.
C15_State ==
    \A c \in Calls : IsClearCache(c) =>
        /\ tasks[c].pending \cup tasks[c].failed \subseteq tasks[c].listed
        /\ tasks[c].pending \cap tasks[c].failed = {}
        /\ tasks[c].pending \subseteq tasks[c].unsettled
        /\ (tasks[c].pc = "dels" /\ TurnOver) => tasks[c].failed = {}
        /\ (tasks[c].pc = "done" /\ tasks[c].failed # {}) => ~tasks[c].cleared

\* The listing issues one delete per listed key; the reply to one delete
\* settles that delete only: the other deletes stay in flight whether the
\* reply is a failure or not and whether clearCache has returned or not, and
\* an acknowledged delete removes its key.
C15_Step ==
    \A c \in Calls :
        /\ (tasks[c].pc = "keysReply" /\ tasks'[c].pc = "dels") =>
              tasks'[c].pending = tasks'[c].listed
        /\ (tasks[c].pending # {} /\ tasks'[c].pending # tasks[c].pending) =>
              \E key \in tasks[c].pending :
                  /\ tasks'[c].pending = tasks[c].pending \ {key}
                  /\ IF key \in tasks'[c].failed
                     THEN store' = store
                     ELSE store' = [store EXCEPT ![key] = Null]

\* C15: clearCache issues the deletes of all listed keys before it awaits any
\* of them, and a failing delete does not stop the others; so clearCache can
\* resolve with false, its only indication to the caller, while some but
\* not all of the listed keys have been removed.
C15_PartialClear == []C15_State /\ [][C15_Step]_vars

\* clearCache resolved with false after listing several keys: one delete
\* failed and its key is still in the store, another was acknowledged and its
\* key is gone.
C15_Witness ==
    \E c \in Calls :
        /\ IsClearCache(c) /\ tasks[c].pc = "done" /\ ~tasks[c].cleared
        /\ \E k \in tasks[c].failed : store[k] # Null
        /\ \E k \in Deleted(c) : store[k] = Null
        /\ Deleted(c) # tasks[c].listed

-----------------------------------------------------------------------------
(* Key-space properties *)

\* The text is the JSON of the result of getTests for school i on one of the
\* pages of its division.
IsResultOf(text, i) ==
    /\ Parse(text).ok
    /\ IsDivisionResult(Parse(text).val)
    /\ Parse(text).val.heading = schools[i].name
    /\ \E doc \in Upstream(schools[i].id) :
          Parse(text).val = JsonValue(ParseResult(doc, schools[i].name))

\* C17: starting from an empty store, whatever the interleaving of getTests,
\* getStats and clearCache calls, every key in the store is the prefix joined
\* with a registered slug and holds the JSON of a DivisionResult (never the
\* statistics of getStats) whose heading is the display name of the division
\* of that slug; and a getTests call served from the cache resolves with the
\* data of its own division.
C17_KeysHoldOwnDivision ==
    /\ \A k \in Keys : store[k] # Null =>
          \E i \in SchoolIdx :
              /\ k = <<redisPrefix, schools[i].slug>>
              /\ IsResultOf(store[k].text, i)
    /\ \A c \in TaskIds :
          (IsGetTests(c) /\ tasks[c].pc = "done" /\ Registered(tasks[c].slug)) =>
              /\ tasks[c].result.heading = NameOf(tasks[c].slug)
              /\ tasks[c].origin # Null =>
                    /\ tasks[c].fetches = 0
                    /\ tasks[c].origin.heading = NameOf(tasks[c].slug)
                    /\ tasks[c].result = JsonValue(tasks[c].origin)

\* getStats resolved, a clearCache call removed keys, afterwards a getTests
\* call was served from the cache, and the store holds the entries of several
\* divisions.
C17_Witness ==
    /\ stats.pc = "done"
    /\ IsClearCache(1) /\ tasks[1].pc = "done" /\ tasks[1].cleared
    /\ tasks[1].listed # {}
    /\ IsGetTests(2) /\ tasks[2].pc = "done" /\ tasks[2].origin # Null
    /\ Cardinality(PrefixKeysInStore) >= 2

-----------------------------------------------------------------------------
(* Failed and unknown-slug calls leave the store alone *)

\* The upstream request of the call failed.
UpstreamFailed(t) == t.resp # Null /\ FailureOf(t.resp) # ""

\* A call for an unknown slug has read no cache and asked no upstream; a call
\* whose upstream request failed rejects without issuing a cache write.
C18_State ==
    \A c \in Calls : IsGetTests(c) =>
        /\ ~Registered(tasks[c].slug) =>
              /\ tasks[c].pc = "done" /\ tasks[c].result = Null
              /\ tasks[c].fetches = 0 /\ tasks[c].resp = Null
              /\ tasks[c].reply = Null /\ tasks[c].origin = Null
        /\ UpstreamFailed(tasks[c]) =>
              /\ tasks[c].pc \in {"fetched", "json", "body", "thrown", "raised"}
              /\ tasks[c].data = Null /\ tasks[c].ack = ""
        /\ (tasks[c].pc = "raised" /\ tasks[c].err # "cache") =>
              UpstreamFailed(tasks[c])

\* No step of a call for an unknown slug, and no step of a call whose
\* upstream request failed, changes the store.
C18_Step ==
    \A c \in Calls :
        (/\ tasks'[c] # tasks[c]
         /\ tasks'[c].op = "getTests"
         /\ ~Registered(tasks'[c].slug) \/ UpstreamFailed(tasks'[c])) =>
            store' = store

\* C18: a getTests call that rejects because the upstream failed, and a
\* getTests call for an unknown slug, leave the store as it is, so that the
\* entry cached for another slug stays; the call for an unknown slug reads no
\* cache and makes no upstream request.
C18_FailedCallsKeepStore == []C18_State /\ [][C18_Step]_vars

\* The first call cached its result; the second, for another slug, rejected
\* on an upstream failure, and the first call's entry is in the store as
\* written.
C18_Witness ==
    /\ Wrote(1) /\ IsGetTests(2) /\ tasks[2].pc = "raised"
    /\ UpstreamFailed(tasks[2]) /\ tasks[2].slug # tasks[1].slug
    /\ store[Key(tasks[1].slug)] # Null
    /\ store[Key(tasks[1].slug)].value = tasks[1].result
    /\ Parse(store[Key(tasks[1].slug)].text).ok

\* clearCache call c returns true in this step.
ReturnsTrue(c) ==
    /\ tasks[c].op = "clearCache" /\ tasks[c].pc = "joined"
    /\ tasks'[c].pc = "done" /\ tasks'[c].cleared

\* The keys under the prefix right after the step.
PrefixKeysAfter == {k \in Keys : store'[k] # Null /\ MatchesPrefix(k)}

\* When clearCache returns true no key under the prefix is in the store at
\* that moment, whatever getTests calls are in flight.
C19_NoKeyAtReturn ==
    [][\A c \in Calls : ReturnsTrue(c) => PrefixKeysAfter = {}]_vars

\* C19 (amended): when clearCache returns true every key it listed has been
\* deleted by it, and a key under the prefix that is in the store at that
\* moment was written after clearCache listed the keys: the cache write of a
\* concurrent getTests call that lands after the listing is not removed unless
\* it lands before the delete of a listed key of the same name.
C19_OnlyLaterWritesRemain ==
    [][\A c \in Calls : ReturnsTrue(c) =>
          /\ tasks'[c].pending = {} /\ tasks'[c].failed = {}
          /\ PrefixKeysAfter \subseteq tasks'[c].since]_vars

\* clearCache resolved with true after deleting the keys it listed, and an
\* entry that a getTests call wrote between the listing and the return is in
\* the store.
C19_Witness ==
    \E c \in Calls :
        /\ IsClearCache(c) /\ tasks[c].pc = "done" /\ tasks[c].cleared
        /\ tasks[c].listed # {}
        /\ \E k \in tasks[c].since :
              /\ store[k] # Null /\ store[k].value # Null
              /\ \E d \in TaskIds : Acked(d) /\ Key(tasks[d].slug) = k

-----------------------------------------------------------------------------
(* Statistics from the cache *)

\* What the getTests calls of getStats would have resolved with had each
\* fetched the content it was served: on a hit, the value cache() was given
\* for the entry.
FreshResults ==
    [i \in SchoolIdx |->
        IF tasks[SubOf(i)].origin # Null THEN tasks[SubOf(i)].origin
        ELSE tasks[SubOf(i)].result]

\* C20: getStats resolves with the same statistics whether the results of the
\* divisions were fetched or read from the cache, a students value that is
\* NaN included.
C20_SameStatsWarmAndCold ==
    stats.pc = "done" => stats.result = StatsOf(FreshResults)

-----------------------------------------------------------------------------
(* Termination *)

\* A clearCache call is over when it returned and its deletes are settled.
Over(c) ==
    /\ tasks[c].pc \in {"idle", "done", "raised"}
    /\ tasks[c].pending = {}

\* The request of HungCall is in flight.
Hanging == tasks[HungCall].pc = "fetch"

\* Every call that was made has returned or raised and no job is left, but
\* for HungCall while its request is in flight and getStats while it waits
\* for HungCall.
AllReturned ==
    /\ TurnOver
    /\ \A c \in TaskIds : Over(c) \/ (c = HungCall /\ Hanging)
    /\ stats.pc \in {"idle", "done", "raised"} \/ (stats.pc = "waiting" /\ Hanging)

\* While the request of HungCall is in flight, HungCall has not returned and
\* getStats has not resolved; getStats has rejected only if another of its
\* calls rejected.
HangBlocks ==
    Hanging =>
        /\ ~Settled(tasks[HungCall])
        /\ stats.pc # "done"
        /\ stats.pc = "raised" => RaisedSubs # {}
        /\ (\A s \in Subs \ {HungCall} : tasks[s].pc = "done") => stats.pc = "waiting"

\* C16: when the store and upstream operations in flight complete, every
\* getTests, getStats and clearCache call returns or raises in the end; a
\* request that the upstream never answers keeps its getTests call, and
\* the getStats call that made it, from returning for ever, also after the
\* other four calls have returned (there is no timeout).
C16_ReturnsUnlessHung == <>[]AllReturned /\ []HangBlocks

\* The other four calls of getStats have returned, the request of the first
\* is in flight, and getStats waits.
C16_Witness ==
    /\ stats.pc = "waiting" /\ Hanging
    /\ \A s \in Subs \ {HungCall} : tasks[s].pc = "done"

====
